---------------------------- MODULE Spec2Model ----------------------------
(***************************************************************************)
(* A model of the EventBus of eventbus.go: a registry of subscriber        *)
(* channels per topic behind an RWMutex, asynchronous delivery goroutines  *)
(* counted by a WaitGroup, a quit channel that unblocks them, and the      *)
(* three-phase Close.                                                      *)
(*                                                                         *)
(* Granularity.  Every critical section of the code that contains no       *)
(* blocking operation (Subscribe, Unsubscribe, the RLock sections of       *)
(* Publish and PublishSync, phase 1 of Close) is one action, enabled only  *)
(* while no goroutine holds the write lock.  Phase 3 of Close closes the   *)
(* channels one by one while other goroutines may be sending on them, so   *)
(* it holds the lock over several steps.  A channel is unbuffered: a send  *)
(* completes in one step together with the receive that takes it, and the  *)
(* receivers are the environment.  A goroutine between two operations on   *)
(* shared state is not a separate position: wg.Add(1) and the go statement *)
(* are one step, and so are the end of a task's select and its deferred    *)
(* recover and wg.Done().  The wg.Done() that takes the counter to zero    *)
(* releases the goroutine in wg.Wait in a step of its own, and that        *)
(* goroutine resumes in another: sync.WaitGroup panics when an Add falls   *)
(* between them.                                                           *)
(***************************************************************************)
EXTENDS Integers, Sequences, FiniteSets, TLC

\* ------------------------------------------------------------------ bounds
\* Calls of Subscribe, Unsubscribe, Publish, PublishSync and Close in one run.
MaxCalls == 4

Topic == {"A", "B"}
Ids == 1..MaxCalls

VARIABLES
    subscribers,  \* bus.subscribers: topic -> sequence of channels (keys: DOMAIN)
    closed,       \* bus.closed
    quitCh,       \* number of close(bus.quitCh) executed (0: the channel is open)
    wg,           \* bus.wg: the WaitGroup's counter
    lock,         \* bus.lock: 0, or the Close call that holds it in phase 3
    chans,        \* the channels made by Subscribe, in order: state, topic, closes
    pubs,         \* the Publish calls, in order: pc, subs, task
    syncs,        \* the PublishSync calls, in order: pc, subs, i, errs, got
    closers,      \* the Close calls, in order: their position
                  \*   "noop" | "wait" | "waiting" | "release" | "woken" | "lock" |
                  \*   "closing" | "returned"
    cloTopic,     \* phase 3: the topic of the outer range loop ("" between topics)
    cloI,         \* phase 3: the index of the inner range loop
    calls,        \* number of calls made so far
    lastMiss,     \* the kind of the latest Unsubscribe that found nothing
    blockedAtClose, \* whether tasks were in their select when Close set closed
    crashed       \* an unrecovered panic ended the process

vars == <<subscribers, closed, quitCh, wg, lock, chans, pubs, syncs, closers,
          cloTopic, cloI, calls, lastMiss, blockedAtClose, crashed>>

\* ----------------------------------------------------------------- helpers
Range(s) == {s[i] : i \in DOMAIN s}

\* bus.subscribers[topic]: the zero value (a nil slice) for a missing key
Subs(t) == IF t \in DOMAIN subscribers THEN subscribers[t] ELSE <<>>

\* bus.subscribers[topic] = v (creates the key)
MapSet(m, t, v) == [k \in DOMAIN m \cup {t} |-> IF k = t THEN v ELSE m[k]]

\* delete(bus.subscribers, topic)
MapDelete(m, t) == [k \in DOMAIN m \ {t} |-> m[k]]

\* A mutant of SlicesDelete: subs[:i], which drops the tail with the element.
SlicesDeleteTruncate(s, i) == SubSeq(s, 1, i - 1)

\* A mutant of SlicesDelete: the last element moved into the place of the
\* deleted one.
SlicesDeleteSwap(s, i) ==
    IF i = Len(s) THEN SubSeq(s, 1, i - 1)
    ELSE [j \in 1..(Len(s) - 1) |-> IF j = i THEN s[Len(s)] ELSE s[j]]

\* slices.Delete(subs, i, i+1)
SlicesDelete(s, i) == SubSeq(s, 1, i - 1) \o SubSeq(s, i + 1, Len(s))

\* slices.Clone(subs)
SlicesClone(s) == [i \in 1..Len(s) |-> s[i]]

\* the index at which the range loop of Unsubscribe finds sub (0: not found)
IndexOf(s, c) ==
    IF c \in Range(s)
    THEN CHOOSE i \in DOMAIN s : s[i] = c /\ \A j \in 1..(i - 1) : s[j] # c
    ELSE 0

\* A channel is "open" or carries the name of the operation that closed it.
IsOpen(c) == chans[c].state = "open"
IsClosed(c) == chans[c].state # "open"

\* close(c) by operation `by`; closing a closed channel panics, unrecovered
CloseChan(c, by) ==
    /\ chans' = [chans EXCEPT ![c].state = IF IsClosed(c) THEN @ ELSE by,
                              ![c].closes = @ + 1]
    /\ crashed' = IsClosed(c)

\* Topics() and SubscriberCount(topic)
Topics == DOMAIN subscribers
SubscriberCount(t) == Len(Subs(t))

\* the channels in the registry
Registered == UNION {Range(subscribers[t]) : t \in DOMAIN subscribers}

\* --------------------------------------------------------------------- Init
Init ==
    /\ subscribers = << >>
    /\ closed = FALSE
    /\ quitCh = 0
    /\ wg = 0
    /\ lock = 0
    /\ chans = << >>
    /\ pubs = << >>
    /\ syncs = << >>
    /\ closers = << >>
    /\ cloTopic = ""
    /\ cloI = 0
    /\ calls = 0
    /\ lastMiss = "none"
    /\ blockedAtClose = FALSE
    /\ crashed = FALSE

Running == ~crashed
LockFree == lock = 0
\* a new call: the process runs, the registry lock is free, the budget allows it
Call == Running /\ LockFree /\ calls < MaxCalls /\ calls' = calls + 1

\* ---------------------------------------------------------------- Subscribe
\* A mutant of Subscribe: no check of bus.closed.
SubscribeNoClosedCheck(t) ==
    /\ Call
    /\ chans' = Append(chans, [state |-> "open", topic |-> t, closes |-> 0])
    /\ subscribers' = MapSet(subscribers, t, Append(Subs(t), Len(chans) + 1))
    /\ UNCHANGED <<closed, quitCh, wg, lock, pubs, syncs, closers, cloTopic, cloI,
                   lastMiss, blockedAtClose, crashed>>

\* A mutant of Subscribe: the closed branch closes the channel and does not return.
SubscribeNoReturn(t) ==
    /\ Call
    /\ chans' = Append(chans, [state |-> IF closed THEN "subscribe" ELSE "open",
                               topic |-> t, closes |-> IF closed THEN 1 ELSE 0])
    /\ subscribers' = MapSet(subscribers, t, Append(Subs(t), Len(chans) + 1))
    /\ UNCHANGED <<closed, quitCh, wg, lock, pubs, syncs, closers, cloTopic, cloI,
                   lastMiss, blockedAtClose, crashed>>

Subscribe(t) ==
    /\ Call
    /\ IF closed
       THEN /\ chans' = Append(chans, [state |-> "subscribe", topic |-> t, closes |-> 1])
            /\ UNCHANGED subscribers
       ELSE /\ chans' = Append(chans, [state |-> "open", topic |-> t, closes |-> 0])
            /\ subscribers' = MapSet(subscribers, t, Append(Subs(t), Len(chans) + 1))
    /\ UNCHANGED <<closed, quitCh, wg, lock, pubs, syncs, closers, cloTopic, cloI,
                   lastMiss, blockedAtClose, crashed>>

\* -------------------------------------------------------------- Unsubscribe
\* Why Unsubscribe(t, c) finds nothing, for a channel c that Subscribe returned.
MissKind(t, c) ==
    IF chans[c].state = "subscribe" THEN "closedbus"
    ELSE IF chans[c].topic # t THEN "wrongtopic"
    ELSE "again"

\* A mutant of Unsubscribe: a topic left without subscribers is deleted.
UnsubscribeDeleteEmpty(t, c) ==
    /\ Call
    /\ c \in DOMAIN chans
    /\ LET subs == Subs(t)
           i == IndexOf(subs, c) IN
        IF i # 0
        THEN /\ subscribers' = IF Len(subs) = 1 THEN MapDelete(subscribers, t)
                                ELSE MapSet(subscribers, t, SlicesDelete(subs, i))
             /\ CloseChan(c, "unsubscribe")
             /\ UNCHANGED lastMiss
        ELSE /\ lastMiss' = MissKind(t, c)
             /\ UNCHANGED <<subscribers, chans, crashed>>
    /\ UNCHANGED <<closed, quitCh, wg, lock, pubs, syncs, closers, cloTopic, cloI,
                   blockedAtClose>>

\* A mutant of Unsubscribe: the slices.Delete without the close(sub) of line 58.
UnsubscribeNoClose(t, c) ==
    /\ Call
    /\ c \in DOMAIN chans
    /\ LET subs == Subs(t)
           i == IndexOf(subs, c) IN
        IF i # 0
        THEN /\ subscribers' = MapSet(subscribers, t, SlicesDelete(subs, i))
             /\ UNCHANGED <<chans, crashed, lastMiss>>
        ELSE /\ lastMiss' = MissKind(t, c)
             /\ UNCHANGED <<subscribers, chans, crashed>>
    /\ UNCHANGED <<closed, quitCh, wg, lock, pubs, syncs, closers, cloTopic, cloI,
                   blockedAtClose>>

\* A mutant of Unsubscribe: close(sub) without the slices.Delete of line 57.
UnsubscribeNoDelete(t, c) ==
    /\ Call
    /\ c \in DOMAIN chans
    /\ LET subs == Subs(t)
           i == IndexOf(subs, c) IN
        IF i # 0
        THEN /\ CloseChan(c, "unsubscribe")
             /\ UNCHANGED <<subscribers, lastMiss>>
        ELSE /\ lastMiss' = MissKind(t, c)
             /\ UNCHANGED <<subscribers, chans, crashed>>
    /\ UNCHANGED <<closed, quitCh, wg, lock, pubs, syncs, closers, cloTopic, cloI,
                   blockedAtClose>>

\* A mutant of Unsubscribe: close(sub) after the loop, found or not.
UnsubscribeCloseAlways(t, c) ==
    /\ Call
    /\ c \in DOMAIN chans
    /\ LET subs == Subs(t)
           i == IndexOf(subs, c) IN
        IF i # 0
        THEN /\ subscribers' = MapSet(subscribers, t, SlicesDelete(subs, i))
             /\ UNCHANGED lastMiss
        ELSE /\ lastMiss' = MissKind(t, c)
             /\ UNCHANGED subscribers
    /\ CloseChan(c, "unsubscribe")
    /\ UNCHANGED <<closed, quitCh, wg, lock, pubs, syncs, closers, cloTopic, cloI,
                   blockedAtClose>>

Unsubscribe(t, c) ==
    /\ Call
    /\ c \in DOMAIN chans
    /\ LET subs == Subs(t)
           i == IndexOf(subs, c) IN
        IF i # 0
        THEN /\ subscribers' = MapSet(subscribers, t, SlicesDelete(subs, i))
             /\ CloseChan(c, "unsubscribe")
             /\ UNCHANGED lastMiss
        ELSE /\ lastMiss' = MissKind(t, c)
             /\ UNCHANGED <<subscribers, chans, crashed>>
    /\ UNCHANGED <<closed, quitCh, wg, lock, pubs, syncs, closers, cloTopic, cloI,
                   blockedAtClose>>

\* ------------------------------------------------------------------ Publish
\* A mutant of Publish: no check of bus.closed.
PublishNoClosedCheck(t) ==
    /\ Call
    /\ pubs' = Append(pubs, [pc |-> IF Subs(t) = <<>> THEN "returned" ELSE "loop",
                             subs |-> SlicesClone(Subs(t)), task |-> <<>>])
    /\ UNCHANGED <<subscribers, closed, quitCh, wg, lock, chans, syncs, closers,
                   cloTopic, cloI, lastMiss, blockedAtClose, crashed>>

\* Lines 69-75: the closed check and the clone of the topic's slice, under RLock.
\* With nothing to deliver the loop of line 77 is empty and Publish returns.
Publish(t) ==
    /\ Call
    /\ pubs' = Append(pubs,
                 IF closed
                 THEN [pc |-> "noop", subs |-> <<>>, task |-> <<>>]
                 ELSE [pc |-> IF Subs(t) = <<>> THEN "returned" ELSE "loop",
                       subs |-> SlicesClone(Subs(t)), task |-> <<>>])
    /\ UNCHANGED <<subscribers, closed, quitCh, wg, lock, chans, syncs, closers,
                   cloTopic, cloI, lastMiss, blockedAtClose, crashed>>

\* Lines 77-79: one iteration of the loop: wg.Add(1) and the go statement.  The
\* goroutine starts in its select.  After the last iteration Publish returns.
\* sync.WaitGroup panics in Add ("WaitGroup misuse: Add called concurrently with
\* Wait") when the Add raises the counter from zero while a waiter is still
\* counted, which is the case between the Done that took the counter to zero and
\* its release of the waiter; the panic leaves Publish through its caller.
PublishGo(p) ==
    /\ Running
    /\ p \in DOMAIN pubs
    /\ pubs[p].pc = "loop"
    /\ wg' = wg + 1
    /\ IF \E c \in DOMAIN closers : closers[c] = "release"
       THEN /\ crashed' = TRUE
            /\ UNCHANGED pubs
       ELSE /\ pubs' = [pubs EXCEPT ![p].task = Append(@, "select"),
                                    ![p].pc = IF Len(pubs[p].task) + 1 = Len(pubs[p].subs)
                                              THEN "returned" ELSE "loop"]
            /\ UNCHANGED crashed
    /\ UNCHANGED <<subscribers, closed, quitCh, lock, chans, syncs, closers,
                   cloTopic, cloI, calls, lastMiss, blockedAtClose>>

\* Line 80: the deferred wg.Done().  The call that takes the counter to zero
\* goes on to release the goroutine blocked in wg.Wait.
WgDone ==
    /\ wg' = wg - 1
    /\ closers' = [c \in DOMAIN closers |->
                     IF wg = 1 /\ closers[c] = "waiting" THEN "release" ELSE closers[c]]

\* A task leaves its select and exits through its deferred calls.
TaskExit(p, i, how) ==
    /\ pubs' = [pubs EXCEPT ![p].task[i] = how]
    /\ WgDone
    /\ UNCHANGED <<subscribers, closed, quitCh, lock, chans, syncs, cloTopic, cloI,
                   calls, lastMiss, blockedAtClose, crashed>>

\* A mutant of TaskChan: the goroutine captures the loop variable instead of
\* taking the channel as its argument, and every task sees the last channel.
TaskChanCaptured(p, i) == pubs[p].subs[Len(pubs[p].subs)]

\* Lines 79 and 90: the channel the goroutine of index i was started with.
TaskChan(p, i) == pubs[p].subs[i]

InSelect(p, i) ==
    /\ p \in DOMAIN pubs
    /\ i \in DOMAIN pubs[p].task
    /\ pubs[p].task[i] = "select"

\* A mutant of TaskSend: the send completes whatever the state of the channel.
TaskSendAnyChan(p, i) ==
    /\ Running
    /\ InSelect(p, i)
    /\ TaskExit(p, i, "sent")

\* Line 87: the send case: a receiver takes the value from the open channel.
TaskSend(p, i) ==
    /\ Running
    /\ InSelect(p, i)
    /\ IsOpen(TaskChan(p, i))
    /\ TaskExit(p, i, "sent")

\* Line 88: the quit case: quitCh is closed.
TaskQuit(p, i) ==
    /\ Running
    /\ InSelect(p, i)
    /\ quitCh > 0
    /\ TaskExit(p, i, "quit")

\* A mutant of TaskPanic: wg.Done() called at the end of the goroutine instead of
\* deferred, so that the panic of the send skips it.
TaskPanicNoDone(p, i) ==
    /\ Running
    /\ InSelect(p, i)
    /\ IsClosed(TaskChan(p, i))
    /\ pubs' = [pubs EXCEPT ![p].task[i] = "panic"]
    /\ UNCHANGED <<subscribers, closed, quitCh, wg, lock, chans, syncs, closers,
                   cloTopic, cloI, calls, lastMiss, blockedAtClose, crashed>>

\* Lines 81-85: the send case on a closed channel panics; the panic is recovered.
TaskPanic(p, i) ==
    /\ Running
    /\ InSelect(p, i)
    /\ IsClosed(TaskChan(p, i))
    /\ TaskExit(p, i, "panic")

\* -------------------------------------------------------------- PublishSync
\* Lines 100-106: the closed check and the clone, under RLock.
PublishSync(t) ==
    /\ Call
    /\ syncs' = Append(syncs,
                  IF closed
                  THEN [pc |-> "ErrBusClosed", subs |-> <<>>, i |-> 0,
                        errs |-> <<>>, got |-> {}]
                  ELSE [pc |-> IF Subs(t) = <<>> THEN "nil" ELSE "send",
                        subs |-> SlicesClone(Subs(t)), i |-> 1,
                        errs |-> <<>>, got |-> {}])
    /\ UNCHANGED <<subscribers, closed, quitCh, wg, lock, chans, pubs, closers,
                   cloTopic, cloI, lastMiss, blockedAtClose, crashed>>

\* A mutant of SyncAdvance: the return of lines 119-122 inside the loop.
SyncAdvanceReturnEarly(s, errs, got) ==
    /\ syncs' = [syncs EXCEPT ![s].errs = errs,
                              ![s].got = got,
                              ![s].i = @ + 1,
                              ![s].pc = IF Len(errs) > 0 THEN "error" ELSE "nil"]
    /\ UNCHANGED <<subscribers, closed, quitCh, wg, lock, chans, pubs, closers,
                   cloTopic, cloI, calls, lastMiss, blockedAtClose, crashed>>

\* After the send of index i: the next iteration, or the return of lines 119-122.
SyncAdvance(s, errs, got) ==
    /\ syncs' = [syncs EXCEPT ![s].errs = errs,
                              ![s].got = got,
                              ![s].i = @ + 1,
                              ![s].pc = IF syncs[s].i < Len(syncs[s].subs) THEN "send"
                                        ELSE IF Len(errs) > 0 THEN "error" ELSE "nil"]
    /\ UNCHANGED <<subscribers, closed, quitCh, wg, lock, chans, pubs, closers,
                   cloTopic, cloI, calls, lastMiss, blockedAtClose, crashed>>

InSend(s) == s \in DOMAIN syncs /\ syncs[s].pc = "send"

\* Line 120: what the returned error says: len(errs), and errs[0], which names
\* the snapshot index of the send that failed.
SyncError(s) == <<Len(syncs[s].errs), syncs[s].errs[1]>>

\* Line 116: ch <- data completes: a receiver takes the value.
SyncSend(s) ==
    /\ Running
    /\ InSend(s)
    /\ IsOpen(syncs[s].subs[syncs[s].i])
    /\ SyncAdvance(s, syncs[s].errs, syncs[s].got \cup {syncs[s].i})

\* A mutant of SyncPanic: the send in a select with <-bus.quitCh, as in Publish,
\* so that the shutdown signal abandons it.
SyncPanicOrQuit(s) ==
    /\ Running
    /\ InSend(s)
    /\ \/ /\ IsClosed(syncs[s].subs[syncs[s].i])
          /\ SyncAdvance(s, Append(syncs[s].errs, syncs[s].i), syncs[s].got)
       \/ /\ quitCh > 0
          /\ SyncAdvance(s, syncs[s].errs, syncs[s].got)

\* A mutant of SyncPanic: the recover around the loop instead of inside it, so
\* that the first failed send ends the call.
SyncPanicAbort(s) ==
    /\ Running
    /\ InSend(s)
    /\ IsClosed(syncs[s].subs[syncs[s].i])
    /\ syncs' = [syncs EXCEPT ![s].errs = Append(@, syncs[s].i), ![s].pc = "error"]
    /\ UNCHANGED <<subscribers, closed, quitCh, wg, lock, chans, pubs, closers,
                   cloTopic, cloI, calls, lastMiss, blockedAtClose, crashed>>

\* Lines 111-115: ch <- data on a closed channel panics; recover appends to errs.
SyncPanic(s) ==
    /\ Running
    /\ InSend(s)
    /\ IsClosed(syncs[s].subs[syncs[s].i])
    /\ SyncAdvance(s, Append(syncs[s].errs, syncs[s].i), syncs[s].got)

\* -------------------------------------------------------------------- Close
\* A mutant of Close: no check of bus.closed.
CloseNoClosedCheck ==
    /\ Call
    /\ closed' = TRUE
    /\ quitCh' = quitCh + 1
    /\ closers' = Append(closers, "wait")
    /\ blockedAtClose' = \E p \in DOMAIN pubs : \E i \in DOMAIN pubs[p].task :
                            InSelect(p, i)
    /\ UNCHANGED <<subscribers, wg, lock, chans, pubs, syncs, cloTopic, cloI,
                   lastMiss, crashed>>

\* A mutant of Close: phase 1 without the Unlock of line 137.
CloseKeepsLock ==
    /\ Call
    /\ IF closed
       THEN /\ closers' = Append(closers, "noop")
            /\ UNCHANGED <<closed, quitCh, blockedAtClose, lock>>
       ELSE /\ closed' = TRUE
            /\ quitCh' = quitCh + 1
            /\ closers' = Append(closers, "wait")
            /\ lock' = Len(closers) + 1
            /\ blockedAtClose' = \E p \in DOMAIN pubs : \E i \in DOMAIN pubs[p].task :
                                    InSelect(p, i)
    /\ UNCHANGED <<subscribers, wg, chans, pubs, syncs, cloTopic, cloI,
                   lastMiss, crashed>>

\* Lines 130-137, phase 1.
Close ==
    /\ Call
    /\ IF closed
       THEN /\ closers' = Append(closers, "noop")
            /\ UNCHANGED <<closed, quitCh, blockedAtClose>>
       ELSE /\ closed' = TRUE
            /\ quitCh' = quitCh + 1
            /\ closers' = Append(closers, "wait")
            /\ blockedAtClose' = \E p \in DOMAIN pubs : \E i \in DOMAIN pubs[p].task :
                                    InSelect(p, i)
    /\ UNCHANGED <<subscribers, wg, lock, chans, pubs, syncs, cloTopic, cloI,
                   lastMiss, crashed>>

At(c, pc) == c \in DOMAIN closers /\ closers[c] = pc

\* Line 80, the end of the wg.Done() that took the counter to zero: it clears the
\* waiter count and releases the goroutine blocked in the wg.Wait of Close call c.
WgRelease(c) ==
    /\ Running
    /\ At(c, "release")
    /\ closers' = [closers EXCEPT ![c] = "woken"]
    /\ UNCHANGED <<subscribers, closed, quitCh, wg, lock, chans, pubs, syncs,
                   cloTopic, cloI, calls, lastMiss, blockedAtClose, crashed>>

\* Line 140, wg.Wait(): with the counter at zero it returns; otherwise the caller
\* is registered as a waiter and sleeps until a Done takes the counter to zero.
CloseWait(c) ==
    /\ Running
    /\ At(c, "wait")
    /\ closers' = [closers EXCEPT ![c] = IF wg = 0 THEN "lock" ELSE "waiting"]
    /\ UNCHANGED <<subscribers, closed, quitCh, wg, lock, chans, pubs, syncs,
                   cloTopic, cloI, calls, lastMiss, blockedAtClose, crashed>>

\* Line 140, the waiter resumes.  sync.WaitGroup panics ("WaitGroup is reused
\* before previous Wait has returned") when an Add has raised the counter since
\* the waiter was released; nothing recovers that panic.
CloseWake(c) ==
    /\ Running
    /\ At(c, "woken")
    /\ IF wg = 0
       THEN /\ closers' = [closers EXCEPT ![c] = "lock"]
            /\ UNCHANGED crashed
       ELSE /\ crashed' = TRUE
            /\ UNCHANGED closers
    /\ UNCHANGED <<subscribers, closed, quitCh, wg, lock, chans, pubs, syncs,
                   cloTopic, cloI, calls, lastMiss, blockedAtClose>>

\* Line 143, phase 3 takes the write lock.
CloseLock(c) ==
    /\ Running /\ LockFree
    /\ At(c, "lock")
    /\ lock' = c
    /\ closers' = [closers EXCEPT ![c] = "closing"]
    /\ UNCHANGED <<subscribers, closed, quitCh, wg, chans, pubs, syncs,
                   cloTopic, cloI, calls, lastMiss, blockedAtClose, crashed>>

\* Line 144: the range over the map yields a next key, in no particular order.
CloseRange(c, t) ==
    /\ Running
    /\ At(c, "closing") /\ cloTopic = ""
    /\ t \in DOMAIN subscribers
    /\ cloTopic' = t
    /\ cloI' = 1
    /\ UNCHANGED <<subscribers, closed, quitCh, wg, lock, chans, pubs, syncs, closers,
                   calls, lastMiss, blockedAtClose, crashed>>

\* Lines 145-147: close(sub) for the next channel of the topic.
CloseSub(c) ==
    /\ Running
    /\ At(c, "closing") /\ cloTopic # ""
    /\ cloI <= Len(subscribers[cloTopic])
    /\ CloseChan(subscribers[cloTopic][cloI], "close")
    /\ cloI' = cloI + 1
    /\ UNCHANGED <<subscribers, closed, quitCh, wg, lock, pubs, syncs, closers,
                   cloTopic, calls, lastMiss, blockedAtClose>>

\* Line 148: delete(bus.subscribers, topic).
CloseDelete(c) ==
    /\ Running
    /\ At(c, "closing") /\ cloTopic # ""
    /\ cloI > Len(subscribers[cloTopic])
    /\ subscribers' = MapDelete(subscribers, cloTopic)
    /\ cloTopic' = ""
    /\ cloI' = 0
    /\ UNCHANGED <<closed, quitCh, wg, lock, chans, pubs, syncs, closers,
                   calls, lastMiss, blockedAtClose, crashed>>

\* Line 150: the range is over; Close unlocks and returns.
CloseUnlock(c) ==
    /\ Running
    /\ At(c, "closing") /\ cloTopic = ""
    /\ DOMAIN subscribers = {}
    /\ lock' = 0
    /\ closers' = [closers EXCEPT ![c] = "returned"]
    /\ UNCHANGED <<subscribers, closed, quitCh, wg, chans, pubs, syncs,
                   cloTopic, cloI, calls, lastMiss, blockedAtClose, crashed>>

\* --------------------------------------------------------------------- Next
Next ==
    \/ \E t \in Topic : Subscribe(t)
    \/ \E t \in Topic, c \in Ids : Unsubscribe(t, c)
    \/ \E t \in Topic : Publish(t)
    \/ \E p \in Ids : PublishGo(p)
    \/ \E p \in Ids, i \in Ids : TaskSend(p, i)
    \/ \E p \in Ids, i \in Ids : TaskQuit(p, i)
    \/ \E p \in Ids, i \in Ids : TaskPanic(p, i)
    \/ \E t \in Topic : PublishSync(t)
    \/ \E s \in Ids : SyncSend(s)
    \/ \E s \in Ids : SyncPanic(s)
    \/ Close
    \/ \E c \in Ids : CloseWait(c)
    \/ \E c \in Ids : WgRelease(c)
    \/ \E c \in Ids : CloseWake(c)
    \/ \E c \in Ids : CloseLock(c)
    \/ \E c \in Ids, t \in Topic : CloseRange(c, t)
    \/ \E c \in Ids : CloseSub(c)
    \/ \E c \in Ids : CloseDelete(c)
    \/ \E c \in Ids : CloseUnlock(c)

Spec == Init /\ [][Next]_vars

\* ----------------------------------------------------------------- fairness
\* The Go scheduler runs every goroutine that can take a step.  A goroutine
\* blocked in a send can take a step when its channel is closed or, in the
\* select of a task, when quitCh is closed.
TaskStep(p, i) == TaskQuit(p, i) \/ TaskPanic(p, i)

CloseStep(c) ==
    \/ CloseWait(c) \/ WgRelease(c) \/ CloseWake(c) \/ CloseLock(c)
    \/ (\E t \in Topic : CloseRange(c, t))
    \/ CloseSub(c) \/ CloseDelete(c) \/ CloseUnlock(c)

Scheduling ==
    /\ \A p \in Ids : WF_vars(PublishGo(p))
    /\ \A p \in Ids, i \in Ids : WF_vars(TaskStep(p, i))
    /\ \A s \in Ids : WF_vars(SyncPanic(s))
    /\ \A c \in Ids : WF_vars(CloseStep(c))

\* Every subscriber keeps receiving: a send on an open channel is taken.
Receiving ==
    /\ \A p \in Ids, i \in Ids : WF_vars(TaskSend(p, i))
    /\ \A s \in Ids : WF_vars(SyncSend(s))

\* The bus with subscribers that receive or not, as they please.
FairSpec == Spec /\ Scheduling

\* The bus with subscribers that keep receiving.
LiveSpec == Spec /\ Scheduling /\ Receiving

\* The bus with subscribers that never receive.
NextStuck ==
    \/ \E t \in Topic : Subscribe(t)
    \/ \E t \in Topic, c \in Ids : Unsubscribe(t, c)
    \/ \E t \in Topic : Publish(t)
    \/ \E p \in Ids : PublishGo(p)
    \/ \E p \in Ids, i \in Ids : TaskQuit(p, i)
    \/ \E p \in Ids, i \in Ids : TaskPanic(p, i)
    \/ \E t \in Topic : PublishSync(t)
    \/ \E s \in Ids : SyncPanic(s)
    \/ Close
    \/ \E c \in Ids : CloseWait(c)
    \/ \E c \in Ids : WgRelease(c)
    \/ \E c \in Ids : CloseWake(c)
    \/ \E c \in Ids : CloseLock(c)
    \/ \E c \in Ids, t \in Topic : CloseRange(c, t)
    \/ \E c \in Ids : CloseSub(c)
    \/ \E c \in Ids : CloseDelete(c)
    \/ \E c \in Ids : CloseUnlock(c)

StuckSpec == Init /\ [][NextStuck]_vars /\ Scheduling

\* ------------------------------------------------------------------- claims
Last(s) == s[Len(s)]
NewPublish == Len(pubs') = Len(pubs) + 1
NewSync == Len(syncs') = Len(syncs) + 1
NewClose == Len(closers') = Len(closers) + 1
NewChan == Len(chans') = Len(chans) + 1

\* The copies of the payload of Publish call p that channel c has received.
Copies(p, c) ==
    Cardinality({i \in DOMAIN pubs[p].task : TaskChan(p, i) = c /\ pubs[p].task[i] = "sent"})

\* The Publish calls made so far have delivered: every channel of every snapshot
\* has received its copy, unless it is closed or the bus is closed.
Delivered ==
    \A p \in DOMAIN pubs : \A c \in Range(pubs[p].subs) :
        Copies(p, c) = 1 \/ IsClosed(c) \/ closed

\* C1: a Publish call on an open bus takes as its snapshot exactly the channels
\* registered on its topic; no channel ever receives more than one copy of the
\* payload of one Publish call, and none outside the snapshot receives one; and,
\* with subscribers that keep receiving, every channel of the snapshot eventually
\* has received exactly one copy unless it is closed (Unsubscribe) or the bus is
\* closed.  (A run makes finitely many calls, so "each pending delivery is
\* eventually made" is "infinitely often none is pending".)
C1_AtMostOneCopy ==
    \A p \in DOMAIN pubs : \A c \in DOMAIN chans :
        /\ Copies(p, c) <= 1
        /\ Copies(p, c) = 1 => c \in Range(pubs[p].subs)

C1_SnapshotIsTopic ==
    NewPublish /\ ~closed => \E t \in Topic : Last(pubs').subs = Subs(t)

C1_PublishDeliversOnce ==
    /\ []C1_AtMostOneCopy
    /\ [][C1_SnapshotIsTopic]_vars
    /\ []<>Delivered

C1_Witness ==
    \E p \in DOMAIN pubs :
        /\ Len(pubs[p].subs) = 2
        /\ \A c \in Range(pubs[p].subs) : Copies(p, c) = 1 /\ IsOpen(c)
        /\ ~closed

\* C2: the step that takes a channel out of the registry leaves it closed, and
\* the snapshot of a Publish or PublishSync call holds only channels that are in
\* the registry and open when the call takes it: an unsubscribed channel is
\* terminated and no later publish call sends on it.
C2_RemovedIsClosed ==
    \A c \in DOMAIN chans : c \in Registered /\ c \notin Registered' => IsClosed(c)'

C2_SnapshotIsLive ==
    /\ NewPublish => \A c \in Range(Last(pubs').subs) : c \in Registered /\ IsOpen(c)
    /\ NewSync => \A c \in Range(Last(syncs').subs) : c \in Registered /\ IsOpen(c)

C2_UnsubscribeTerminates == [][C2_RemovedIsClosed /\ C2_SnapshotIsLive]_vars

\* Channel c was unsubscribed from the topic of d, subscribed after it; a later
\* Publish on that topic delivered to d alone.
C2_Witness ==
    \E p \in DOMAIN pubs : \E c, d \in DOMAIN chans :
        /\ c < d
        /\ chans[c].topic = chans[d].topic
        /\ chans[c].state = "unsubscribe"
        /\ pubs[p].subs = <<d>>
        /\ Copies(p, d) = 1
        /\ Copies(p, c) = 0

Returned(c) == c \in DOMAIN closers /\ closers[c] \in {"noop", "returned"}
Empty == Topics = {} /\ \A t \in Topic : SubscriberCount(t) = 0

\* C3 as claimed: after any Close call has returned the registry is empty.
C3_AfterAnyClose == (\E c \in DOMAIN closers : Returned(c)) => Empty

\* C3: after the Close call that set closed has returned, and so after every
\* Close call that begins later, Topics() is empty and SubscriberCount is 0 for
\* every topic, whatever is called afterwards.
C3_AfterShutdown == (\E c \in DOMAIN closers : closers[c] = "returned") => Empty

\* Close has returned, a repeated Close has returned after it and a Subscribe
\* came later.
C3_Witness ==
    /\ \E c, d \in DOMAIN closers : c < d /\ closers[c] = "returned" /\ closers[d] = "noop"
    /\ \E c, d \in DOMAIN chans : chans[c].state = "close" /\ chans[d].state = "subscribe"
    /\ Empty

Looping == \E p \in DOMAIN pubs : pubs[p].pc = "loop"

\* C4 as claimed: with subscribers that never receive, a Close that finds tasks
\* blocked in their select eventually returns, and once it has returned every
\* channel Subscribe made is closed.
C4_CloseReturns ==
    /\ ((\E c \in DOMAIN closers : closers[c] = "wait") /\ blockedAtClose)
          ~> (\E c \in DOMAIN closers : closers[c] = "returned")
    /\ []((\E c \in DOMAIN closers : closers[c] = "returned")
             => \A c \in DOMAIN chans : IsClosed(c))

\* C4, when every Publish call has left its loop before Close waits: Close returns.
C4_CloseReturnsAfterPublish ==
    ((\E c \in DOMAIN closers : closers[c] = "wait") /\ blockedAtClose /\ ~Looping)
       ~> (\E c \in DOMAIN closers : closers[c] = "returned")

\* C5: once closed is true the registry does not grow, a channel Subscribe makes
\* is closed when it is returned and is not registered; such a channel is in no
\* snapshot of a publish call, so nothing is ever sent on it.
C5_NoGrowth ==
    closed => /\ Registered' \subseteq Registered
              /\ Topics' \subseteq Topics
              /\ NewChan => Last(chans').state = "subscribe" /\ Len(chans') \notin Registered'

C5_DeadEndpoint ==
    \A c \in DOMAIN chans : chans[c].state = "subscribe" =>
        /\ c \notin Registered
        /\ \A p \in DOMAIN pubs : c \notin Range(pubs[p].subs) /\ Copies(p, c) = 0
        /\ \A s \in DOMAIN syncs : c \notin Range(syncs[s].subs)

C5_SubscribeAfterClosed == []C5_DeadEndpoint /\ [][C5_NoGrowth]_vars

\* Subscribe was called while Close waits in phase 2.
C5_Witness ==
    /\ \E c \in DOMAIN closers : closers[c] = "waiting"
    /\ \E c \in DOMAIN chans : chans[c].state = "subscribe"
    /\ Registered # {}

\* C6: a Publish call that finds closed true returns having started no task and
\* changed nothing; a PublishSync call that finds closed true returns
\* ErrBusClosed having sent nothing; ErrBusClosed is returned only then.
C6_ClosedPublish ==
    closed /\ NewPublish =>
        /\ Last(pubs') = [pc |-> "noop", subs |-> <<>>, task |-> <<>>]
        /\ UNCHANGED <<subscribers, wg, chans, syncs, crashed>>

C6_ClosedSync ==
    NewSync => /\ closed <=> Last(syncs').pc = "ErrBusClosed"
               /\ closed => Last(syncs').subs = <<>> /\ UNCHANGED <<subscribers, wg, chans, pubs, crashed>>

C6_Final ==
    /\ \A p \in DOMAIN pubs : pubs[p].pc = "noop" => pubs[p].task = <<>>
    /\ \A s \in DOMAIN syncs : syncs[s].pc = "ErrBusClosed" =>
          closed /\ syncs[s].got = {} /\ syncs[s].errs = <<>>

C6_PublishAfterClose == []C6_Final /\ [][C6_ClosedPublish /\ C6_ClosedSync]_vars

\* Close has returned; a Publish and a PublishSync were called after it.
C6_Witness ==
    /\ \E c \in DOMAIN closers : closers[c] = "returned"
    /\ \E p \in DOMAIN pubs : pubs[p].pc = "noop"
    /\ \E s \in DOMAIN syncs : syncs[s].pc = "ErrBusClosed"

SyncReturned(s) == syncs[s].pc \in {"nil", "error"}

\* C7: a PublishSync call returns nil only when every channel of its snapshot
\* has received the payload; it returns nil whenever no channel of its snapshot
\* was closed; and, with subscribers that keep receiving, it returns.  The one
\* run in which it does not return is the one in which the process has died of
\* the panic in Close's wg.Wait, which needs a concurrent Close: the claim
\* excludes it.
C7_Return ==
    \A s \in DOMAIN syncs :
        /\ syncs[s].pc = "nil" => syncs[s].got = DOMAIN syncs[s].subs
        /\ SyncReturned(s) /\ (\A c \in Range(syncs[s].subs) : IsOpen(c)) => syncs[s].pc = "nil"

C7_SyncDelivers ==
    /\ []C7_Return
    /\ []<>(crashed \/ \A s \in DOMAIN syncs : syncs[s].pc # "send")

\* PublishSync has returned nil with two subscribers, both of which received.
C7_Witness ==
    \E s \in DOMAIN syncs :
        /\ syncs[s].pc = "nil"
        /\ Len(syncs[s].subs) = 2
        /\ syncs[s].got = {1, 2}
        /\ \A c \in Range(syncs[s].subs) : IsOpen(c)

Phase3 == \E c \in DOMAIN closers : closers[c] \in {"closing", "returned"}

\* C8: only phase 3 of Close takes a key out of the registry; until then the
\* topic of every channel Subscribe registered is a key, with count 0 once all
\* its channels are unsubscribed.
C8_KeyKept ==
    \A t \in Topic : t \in Topics /\ t \notin Topics' =>
        \E c \in DOMAIN closers : closers[c] = "closing"

C8_KeyPresent ==
    \A c \in DOMAIN chans : chans[c].state # "subscribe" /\ ~Phase3 =>
        /\ chans[c].topic \in Topics
        /\ (\A d \in DOMAIN chans : chans[d].topic = chans[c].topic => IsClosed(d))
              => SubscriberCount(chans[c].topic) = 0

C8_TopicKeyPersists == []C8_KeyPresent /\ [][C8_KeyKept]_vars

\* Both subscribers of a topic were unsubscribed; the topic is still a key.
C8_Witness ==
    \E c, d \in DOMAIN chans :
        /\ c # d
        /\ chans[c].topic = chans[d].topic
        /\ chans[c].state = "unsubscribe" /\ chans[d].state = "unsubscribe"
        /\ chans[c].topic \in Topics
        /\ SubscriberCount(chans[c].topic) = 0

\* C9: an Unsubscribe(t, c) call for a channel c that is not registered on t
\* (unsubscribed before, registered on another topic, or returned by Subscribe
\* on a closed bus) changes neither the registry nor any channel, and does not
\* panic.
C9_MissChangesNothing ==
    \A t \in Topic : \A c \in DOMAIN chans :
        c \notin Range(Subs(t)) /\ Unsubscribe(t, c) =>
            UNCHANGED <<subscribers, closed, quitCh, wg, lock, chans, pubs, syncs,
                        closers, crashed>>

C9_UnsubscribeIdempotent == [][C9_MissChangesNothing]_vars

\* The latest Unsubscribe that found nothing repeated an earlier Unsubscribe.
C9_Witness ==
    /\ lastMiss = "again"
    /\ \E c \in DOMAIN chans : chans[c].state = "unsubscribe" /\ chans[c].closes = 1
    /\ ~crashed

\* C10: closed never goes back to false; quitCh has been closed once when closed
\* is true and never otherwise; a Close call that finds closed true returns
\* having changed nothing.
C10_Repeat ==
    closed /\ NewClose =>
        /\ closers' = Append(closers, "noop")
        /\ UNCHANGED <<subscribers, closed, quitCh, wg, lock, chans, pubs, syncs, crashed>>

C10_CloseIdempotent ==
    /\ [](quitCh = IF closed THEN 1 ELSE 0)
    /\ [][(closed => closed') /\ C10_Repeat]_vars

\* A second Close was called while the first waits in phase 2.
C10_Witness ==
    /\ Len(closers) >= 2
    /\ closers[1] = "waiting" /\ closers[2] = "noop"
    /\ quitCh = 1

\* C11 as claimed: with subscribers that never receive, and whatever deliveries,
\* PublishSync calls and Close calls are in progress, every Publish call returns.
\* (A run makes finitely many calls, so "every call returns" is "infinitely
\* often no call is in its loop".)
C11_PublishReturns == []<>(\A p \in DOMAIN pubs : pubs[p].pc # "loop")

\* C11, while the process runs: a Publish call in its loop never waits, neither
\* for a receiver nor for the lock, and it has returned or the process has died
\* of a WaitGroup panic.
C11_NeverWaits ==
    /\ [](\A p \in DOMAIN pubs : pubs[p].pc = "loop" /\ Running => ENABLED PublishGo(p))
    /\ []<>(crashed \/ \A p \in DOMAIN pubs : pubs[p].pc # "loop")

\* C12: no channel is closed twice: the number of close(ch) executed on a channel
\* is 1 when it is closed and 0 when it is open, a close is only ever executed
\* on an open channel, and a closed channel keeps the name of the one operation
\* (Subscribe on a closed bus, Unsubscribe, phase 3 of Close) that closed it.
C12_ClosedOnce ==
    \A c \in DOMAIN chans :
        /\ chans[c].closes = IF IsClosed(c) THEN 1 ELSE 0
        /\ chans[c].state \in {"open", "subscribe", "unsubscribe", "close"}

C12_CloseOfOpen ==
    \A c \in DOMAIN chans :
        /\ chans'[c].closes # chans[c].closes => IsOpen(c)
        /\ IsClosed(c) => chans'[c].state = chans[c].state

C12_NoDoubleClose == []C12_ClosedOnce /\ [][C12_CloseOfOpen]_vars

\* Phase 3 of Close has closed one channel of a topic whose other channel
\* Unsubscribe had closed, and Close has returned.
C12_Witness ==
    /\ \E c, d \in DOMAIN chans :
          /\ chans[c].topic = chans[d].topic
          /\ chans[c].state = "unsubscribe" /\ chans[c].closes = 1
          /\ chans[d].state = "close" /\ chans[d].closes = 1
    /\ \E c \in DOMAIN closers : closers[c] = "returned"

\* C13 as claimed: once phase 3 of a Close call has begun, no task of any Publish
\* call is in its select, and no Publish call is still to start one.
C13_NoTaskInPhase3 ==
    Phase3 => \A p \in DOMAIN pubs :
                 /\ pubs[p].pc # "loop"
                 /\ \A i \in DOMAIN pubs[p].task : ~InSelect(p, i)

\* The sends in progress: channel c is the send case of a task's select, or the
\* channel of the ch <- data a PublishSync call is at.
Sending(c) ==
    \/ \E p \in DOMAIN pubs : \E i \in DOMAIN pubs[p].task : InSelect(p, i) /\ TaskChan(p, i) = c
    \/ \E s \in DOMAIN syncs : InSend(s) /\ syncs[s].subs[syncs[s].i] = c

C14_SendCompletesOnOpen ==
    /\ \A p \in DOMAIN pubs : \A i \in DOMAIN pubs[p].task :
          pubs[p].task[i] = "select" /\ pubs'[p].task[i] = "sent" => IsOpen(TaskChan(p, i))
    /\ \A s \in DOMAIN syncs :
          syncs'[s].got # syncs[s].got => IsOpen(syncs[s].subs[syncs[s].i])
    /\ NewPublish => \A i \in DOMAIN Last(pubs').subs : IsOpen(Last(pubs').subs[i])
    /\ NewSync => \A i \in DOMAIN Last(syncs').subs : IsOpen(Last(syncs').subs[i])

C14_FailedSendRecovered ==
    /\ \A p \in DOMAIN pubs : \A i \in DOMAIN pubs[p].task :
          pubs[p].task[i] = "select" /\ pubs'[p].task[i] = "panic" =>
              IsClosed(TaskChan(p, i)) /\ wg' = wg - 1 /\ UNCHANGED crashed
    /\ \A s \in DOMAIN syncs :
          Len(syncs'[s].errs) # Len(syncs[s].errs) =>
              /\ IsClosed(syncs[s].subs[syncs[s].i])
              /\ syncs'[s].errs = Append(syncs[s].errs, syncs[s].i)
              /\ UNCHANGED crashed

Unfinished ==
    UNION {{<<p, i>> : i \in {j \in DOMAIN pubs[p].task : pubs[p].task[j] = "select"}} :
           p \in DOMAIN pubs}

\* C15: in the running process the counter of the WaitGroup is the number of
\* tasks started and not exited, hence never negative; the step that starts a
\* task adds one to it, the step in which a task exits (sent, quit or recovered
\* panic) takes one from it, an exited task stays exited, and nothing else
\* changes it; and once closed is true every task started exits, whether or not
\* any subscriber receives.  (A process that has died of an unrecovered
\* WaitGroup panic, see C4 and C11, runs no task.)
C15_Counter == Running => wg = Cardinality(Unfinished) /\ wg >= 0

C15_OncePerTask ==
    Running' =>
      /\ \A p \in DOMAIN pubs :
            /\ Len(pubs'[p].task) > Len(pubs[p].task) =>
                  wg' = wg + 1 /\ pubs'[p].task = Append(pubs[p].task, "select")
            /\ \A i \in DOMAIN pubs[p].task :
                  /\ pubs[p].task[i] = "select" /\ pubs'[p].task[i] # "select" =>
                        wg' = wg - 1 /\ pubs'[p].task[i] \in {"sent", "quit", "panic"}
                  /\ pubs[p].task[i] # "select" => pubs'[p].task[i] = pubs[p].task[i]
      /\ wg' # wg => Unfinished' # Unfinished

Failed(s) == DOMAIN syncs[s].subs \ syncs[s].got

\* C16: a PublishSync call on an open bus that has returned has attempted the
\* send at every position of its snapshot, each exactly once: a position was
\* received or is recorded as failed, never both; it returned nil exactly when
\* no send failed; otherwise the error it returned gives as count the number of
\* failed positions and as first cause the lowest of them.  The step in which a
\* send fails does not end the process and leaves the call in its loop or
\* returned.
C16_Aggregate ==
    \A s \in DOMAIN syncs : SyncReturned(s) =>
        /\ Range(syncs[s].errs) = Failed(s)
        /\ Len(syncs[s].errs) = Cardinality(Failed(s))
        /\ syncs[s].i = Len(syncs[s].subs) + 1
        /\ syncs[s].pc = "nil" <=> Failed(s) = {}
        /\ syncs[s].pc = "error" =>
              /\ SyncError(s)[1] = Cardinality(Failed(s))
              /\ SyncError(s)[2] \in Failed(s)
              /\ \A j \in Failed(s) : SyncError(s)[2] <= j

C16_FailureContained ==
    \A s \in DOMAIN syncs :
        syncs'[s].errs # syncs[s].errs =>
            /\ UNCHANGED <<crashed, subscribers, chans, wg>>
            /\ syncs'[s].i = syncs[s].i + 1
            /\ syncs'[s].pc = IF syncs[s].i < Len(syncs[s].subs) THEN "send" ELSE "error"

C16_SyncIsolatesFailures == []C16_Aggregate /\ [][C16_FailureContained]_vars

\* The first channel of a snapshot of two was closed under the PublishSync call:
\* the send on it failed, the second channel still received, and the call
\* returned an error of count 1 naming position 1.
C16_Witness ==
    \E s \in DOMAIN syncs :
        /\ syncs[s].pc = "error"
        /\ Len(syncs[s].subs) = 2
        /\ syncs[s].got = {2}
        /\ SyncError(s) = <<1, 1>>
        /\ ~crashed

\* Channels are numbered by their Subscribe calls: a sequence of channels is in
\* registration order when it is increasing.
InRegistrationOrder(q) == \A i, j \in DOMAIN q : i < j => q[i] < q[j]

\* C17: the slice of every topic is in registration order, and so is the
\* snapshot of every PublishSync call; a call at position i of its snapshot has
\* made the sends of exactly the positions before i, so the sends are made one
\* after the other in that order; a PublishSync call on an open bus takes the
\* slice of its topic as it is; and a step that removes a channel from a topic
\* leaves the other channels of the topic in the order they had.
C17_Ordered ==
    /\ \A t \in DOMAIN subscribers : InRegistrationOrder(subscribers[t])
    /\ \A s \in DOMAIN syncs :
          /\ InRegistrationOrder(syncs[s].subs)
          /\ syncs[s].pc # "ErrBusClosed" =>
                syncs[s].got \cup Range(syncs[s].errs) = 1..(syncs[s].i - 1)

C17_OrderKept ==
    /\ NewSync /\ ~closed => \E t \in Topic : Last(syncs').subs = Subs(t)
    /\ \A s \in DOMAIN syncs : syncs'[s].i \in {syncs[s].i, syncs[s].i + 1}
    /\ \A t \in DOMAIN subscribers \cap DOMAIN subscribers' :
          Range(subscribers'[t]) \subseteq Range(subscribers[t]) =>
              LET Kept(c) == c \in Range(subscribers'[t])
              IN  subscribers'[t] = SelectSeq(subscribers[t], Kept)

C17_SyncInRegistrationOrder == []C17_Ordered /\ [][C17_OrderKept]_vars

\* A PublishSync call over the two subscribers of a topic has delivered to the
\* one subscribed first and is at the send to the one subscribed second.
C17_Witness ==
    \E s \in DOMAIN syncs :
        /\ syncs[s].subs = <<1, 2>>
        /\ syncs[s].pc = "send"
        /\ syncs[s].i = 2
        /\ syncs[s].got = {1}

\* A Close call in phase 2: between the Unlock of line 137 and the Lock of line 143.
Phase2(c) == c \in DOMAIN closers /\ closers[c] \in {"wait", "waiting", "release", "woken", "lock"}

\* C18: the lock is held between two steps only by a Close call in phase 3,
\* never by a Close call in phase 2, a task in its select or a PublishSync call
\* in its send (their critical sections, lines 69-75 and 100-106, are over
\* before the first send); a task or a PublishSync call whose send can fail or
\* be abandoned takes that step whoever holds the lock; whenever the lock is
\* free in the running process a Subscribe, Unsubscribe, Publish, PublishSync
\* or Close call gets it, whatever sends are pending; and with subscribers that
\* never receive the lock is free again and again.
C18_Holder ==
    /\ lock # 0 => lock \in DOMAIN closers /\ closers[lock] = "closing"
    /\ \A c \in DOMAIN closers : Phase2(c) => lock # c

C18_CallsGetLock ==
    Running /\ LockFree /\ calls < MaxCalls =>
        /\ \A t \in Topic : ENABLED Subscribe(t) /\ ENABLED Publish(t) /\ ENABLED PublishSync(t)
        /\ \A t \in Topic : \A c \in DOMAIN chans : ENABLED Unsubscribe(t, c)
        /\ ENABLED Close

C18_SendsNeedNoLock ==
    Running =>
        /\ \A p \in DOMAIN pubs : \A i \in DOMAIN pubs[p].task :
              InSelect(p, i) /\ (quitCh > 0 \/ IsClosed(TaskChan(p, i))) => ENABLED TaskStep(p, i)
        /\ \A s \in DOMAIN syncs :
              InSend(s) /\ IsClosed(syncs[s].subs[syncs[s].i]) => ENABLED SyncPanic(s)

C18_NoLockDuringSend ==
    /\ [](C18_Holder /\ C18_CallsGetLock /\ C18_SendsNeedNoLock)
    /\ []<>LockFree

\* With a task blocked in its select and Close waiting for it in phase 2, the
\* lock is free and a Subscribe call has gone through.
C18_Witness ==
    /\ \E c \in DOMAIN closers : closers[c] = "waiting"
    /\ \E p \in DOMAIN pubs : \E i \in DOMAIN pubs[p].task :
          InSelect(p, i) /\ IsOpen(TaskChan(p, i))
    /\ \E c \in DOMAIN chans : chans[c].state = "subscribe"
    /\ LockFree /\ ~crashed

\* The channel PublishSync call s is sending on.
SyncChan(s) == syncs[s].subs[syncs[s].i]

ShutdownDone == \E c \in DOMAIN closers : closers[c] = "returned"

\* C19, with subscribers that never receive: a PublishSync call in its send on
\* an open channel can take no step, whether closed is true or not, and the step
\* that closes quitCh changes no PublishSync call; the call leaves a send only
\* when the channel of that send is closed, and then it records the position of
\* that send as failed and goes on to the next position or returns; a call that
\* has returned from a snapshot that is not empty has returned an error counting
\* every position; and once the Close call that shuts the bus down has returned,
\* every PublishSync call returns.
C19_Blocked ==
    \A s \in DOMAIN syncs :
        /\ InSend(s) /\ IsOpen(SyncChan(s)) => ~ENABLED SyncPanic(s)
        /\ SyncReturned(s) /\ syncs[s].subs # <<>> =>
              syncs[s].pc = "error" /\ SyncError(s)[1] = Len(syncs[s].subs)

C19_Released ==
    /\ quitCh' # quitCh => UNCHANGED syncs
    /\ \A s \in DOMAIN syncs :
          syncs'[s] # syncs[s] =>
              /\ InSend(s) /\ IsClosed(SyncChan(s))
              /\ chans[SyncChan(s)].state \in {"unsubscribe", "close"}
              /\ syncs'[s].errs = Append(syncs[s].errs, syncs[s].i)
              /\ syncs'[s].i = syncs[s].i + 1

C19_QuitDoesNotCancelSync ==
    /\ []C19_Blocked
    /\ [][C19_Released]_vars
    /\ []<>(~ShutdownDone \/ \A s \in DOMAIN syncs : ~InSend(s))

\* A PublishSync call over two subscribers that never receive was blocked when
\* Close was called; phase 3 closed both channels, and the call has returned an
\* error counting both.
C19_Witness ==
    /\ ShutdownDone
    /\ \E s \in DOMAIN syncs :
          /\ syncs[s].pc = "error"
          /\ syncs[s].errs = <<1, 2>>
          /\ \A i \in DOMAIN syncs[s].subs : chans[syncs[s].subs[i]].state = "close"

\* The number of places channel c has in the slice of topic t.
Places(t, c) == Cardinality({i \in DOMAIN Subs(t) : Subs(t)[i] = c})

\* The open channels that were subscribed on topic t.
LiveOn(t) == {c \in DOMAIN chans : chans[c].topic = t /\ IsOpen(c)}

\* C20: whenever no goroutine holds the write lock, a channel that Subscribe
\* returned is in the registry exactly when it is open; it has one place in the
\* slice of the topic it was subscribed on and none in any other; and
\* SubscriberCount(t) is the number of open channels subscribed on t, for every
\* topic, before, during and after phases 1 and 2 of Close.
C20_MembershipIsLiveness ==
    LockFree =>
        /\ \A c \in DOMAIN chans :
              /\ c \in Registered <=> IsOpen(c)
              /\ \A t \in Topic :
                    Places(t, c) = IF t = chans[c].topic /\ IsOpen(c) THEN 1 ELSE 0
        /\ Registered \subseteq DOMAIN chans
        /\ \A t \in Topic : SubscriberCount(t) = Cardinality(LiveOn(t))

\* Between phase 1 and phase 3 of Close, one of the two subscribers of a topic
\* has been unsubscribed: the count of the topic is 1.
C20_Witness ==
    /\ \E c \in DOMAIN closers : Phase2(c)
    /\ \E c, d \in DOMAIN chans :
          /\ chans[c].topic = chans[d].topic
          /\ chans[c].state = "unsubscribe"
          /\ IsOpen(d)
          /\ SubscriberCount(chans[d].topic) = 1
    /\ LockFree
=============================================================================
